---- MODULE Spec2Model ----
(***************************************************************************)
(* Model of TechnicalanalysisAPI/app.py: the numeric guard, the five       *)
(* indicator calculators, the signal classifier, the suggestion aggregator *)
(* and the /analyze request handler.                                       *)
(*                                                                         *)
(* Floating point values are modelled as decimal fixed point numbers with  *)
(* three digits after the point (the integer v stands for v / Scale), plus *)
(* the three non-finite values NaN, +Infinity and -Infinity. Every         *)
(* arithmetic operation rounds toward zero to that grid, as a float        *)
(* operation rounds to its own grid.                                       *)
(***************************************************************************)
EXTENDS Integers, Sequences, FiniteSets, TLC

\* ------------------------------------------------------------------ bounds

\* Number of trailing bars of a series that are drawn freely.
TailLen == 2
\* Series of every length from 1 to MaxShortLen are drawn.
MaxShortLen == 21

\* ------------------------------------------------------- float arithmetic

Scale == 10 ^ 3

Fin(x) == [k |-> "fin", v |-> x]
Num(n) == Fin(n * Scale)
NaN == [k |-> "nan", v |-> 0]
PInf == [k |-> "inf", v |-> 1]
NInf == [k |-> "inf", v |-> -1]
\* Python's None, for a field that has not been computed yet.
None == [k |-> "none", v |-> 0]

IsNaN(a) == a.k = "nan"
IsInf(a) == a.k = "inf"
IsFin(a) == a.k = "fin"

Sgn(x) == IF x > 0 THEN 1 ELSE IF x < 0 THEN -1 ELSE 0
Mag(x) == IF x < 0 THEN -x ELSE x
SignOf(a) == Sgn(a.v)
Infty(s) == IF s > 0 THEN PInf ELSE NInf

\* |a * b| / Scale and |a| * Scale / |b| on magnitudes, computed in two
\* parts so that no intermediate product leaves the integer range.
MulMag(a, b) == (a \div Scale) * b + ((a % Scale) * b) \div Scale
DivMag(a, b) == (a \div b) * Scale + ((a % b) * Scale) \div b

FNeg(a) == IF IsNaN(a) THEN NaN ELSE [a EXCEPT !.v = -a.v]

FAdd(a, b) ==
    IF IsNaN(a) \/ IsNaN(b) THEN NaN
    ELSE IF IsInf(a) /\ IsInf(b) THEN (IF a.v = b.v THEN a ELSE NaN)
    ELSE IF IsInf(a) THEN a
    ELSE IF IsInf(b) THEN b
    ELSE Fin(a.v + b.v)

FSub(a, b) == FAdd(a, FNeg(b))

FMul(a, b) ==
    IF IsNaN(a) \/ IsNaN(b) THEN NaN
    ELSE IF IsInf(a) \/ IsInf(b)
         THEN (IF SignOf(a) * SignOf(b) = 0 THEN NaN
               ELSE Infty(SignOf(a) * SignOf(b)))
    ELSE Fin(SignOf(a) * SignOf(b) * MulMag(Mag(a.v), Mag(b.v)))

\* numpy division: x / 0 is +-Infinity, 0 / 0 is NaN.
FDiv(a, b) ==
    IF IsNaN(a) \/ IsNaN(b) THEN NaN
    ELSE IF IsInf(a) THEN (IF IsInf(b) THEN NaN
                           ELSE Infty(a.v * (IF b.v < 0 THEN -1 ELSE 1)))
    ELSE IF IsInf(b) THEN Fin(0)
    ELSE IF b.v = 0 THEN (IF a.v = 0 THEN NaN ELSE Infty(a.v))
    ELSE Fin(SignOf(a) * SignOf(b) * DivMag(Mag(a.v), Mag(b.v)))

FAbs(a) == IF IsNaN(a) THEN NaN ELSE [a EXCEPT !.v = Mag(a.v)]

\* Comparisons: every comparison with NaN is false.
FLt(a, b) ==
    IF IsNaN(a) \/ IsNaN(b) THEN FALSE
    ELSE IF IsInf(a) THEN a.v < 0 /\ ~(IsInf(b) /\ b.v < 0)
    ELSE IF IsInf(b) THEN b.v > 0
    ELSE a.v < b.v
FGt(a, b) == FLt(b, a)
FEq(a, b) == ~IsNaN(a) /\ ~IsNaN(b) /\ a = b
FLe(a, b) == FLt(a, b) \/ FEq(a, b)
FGe(a, b) == FLe(b, a)

\* max of two values that skips NaN (DataFrame.max(axis=1), skipna=True).
FMaxSkipNa(a, b) ==
    IF IsNaN(a) THEN b ELSE IF IsNaN(b) THEN a ELSE IF FLt(a, b) THEN b ELSE a

RECURSIVE ISqrtIn(_, _, _)
ISqrtIn(x, lo, hi) ==
    IF lo >= hi THEN lo
    ELSE LET mid == (lo + hi + 1) \div 2
         IN IF mid * mid <= x THEN ISqrtIn(x, mid, hi) ELSE ISqrtIn(x, lo, mid - 1)
ISqrt(x) == ISqrtIn(x, 0, 40000)

\* Square root of a finite non-negative value, to two decimals.
FSqrt(a) ==
    IF IsNaN(a) THEN NaN
    ELSE IF IsInf(a) THEN (IF a.v > 0 THEN PInf ELSE NaN)
    ELSE IF a.v < 0 THEN NaN
    ELSE Fin(ISqrt(a.v * 10) * 10)

\* ------------------------------------------------------------ safe_float

safe_float(value, default) ==
    IF IsNaN(value) \/ IsInf(value) THEN default ELSE value

\* ------------------------------------------------- program constants

RsiPeriod == 14
MacdFast == 12
MacdSlow == 26
MacdSignal == 9
BollingerPeriod == 20
BollingerStdDev == 2
MaShort == 50
MaLong == 200
ShrunkShort == 5
ShrunkLong == 10
VolatilityPeriod == 14
MinHistory == 20
StrongVotes == 3

\* --------------------------------------------------- pandas primitives
\* A column is a sequence of float values; a series of bars is a sequence
\* of records [High, Low, Close].

CloseCol(data) == [i \in 1..Len(data) |-> data[i].Close]
\* Series.iloc[-1]
ILast(xs) == xs[Len(xs)]
\* Series.shift(): the previous row's value, NaN on the first row.
Shift(xs) == [i \in 1..Len(xs) |-> IF i = 1 THEN NaN ELSE xs[i - 1]]
\* Series.diff()
Diff(xs) == [i \in 1..Len(xs) |-> FSub(xs[i], Shift(xs)[i])]

\* The sum of xs[lo..hi], by halving the range.
RECURSIVE SumRange(_, _, _)
SumRange(xs, lo, hi) ==
    IF lo > hi THEN 0
    ELSE IF lo = hi THEN xs[lo].v
    ELSE LET mid == (lo + hi) \div 2
         IN SumRange(xs, lo, mid) + SumRange(xs, mid + 1, hi)

\* rolling(window) accepts any integer window >= 0 and raises otherwise.
RollingValid(window) == window >= 0

\* The last window of a rolling aggregate is complete when the series has
\* at least `window` rows (min_periods = window) and every value in it is
\* finite: rolling turns +-Infinity into NaN, and NaN is not counted.
WindowComplete(xs, window) ==
    /\ window > 0
    /\ Len(xs) >= window
    /\ \A i \in (Len(xs) - window + 1)..Len(xs) : IsFin(xs[i])

\* Series.rolling(window).mean().iloc[-1]
RollingMeanLast(xs, window) ==
    IF ~WindowComplete(xs, window) THEN NaN
    ELSE FDiv(Fin(SumRange(xs, Len(xs) - window + 1, Len(xs))), Num(window))

\* Series.rolling(window).std().iloc[-1]: the sample standard deviation.
RollingStdLast(xs, window) ==
    IF ~WindowComplete(xs, window) \/ window < 2 THEN NaN
    ELSE LET lo == Len(xs) - window + 1
             mean == RollingMeanLast(xs, window)
             sq == [i \in 1..Len(xs) |->
                      IF i < lo THEN Fin(0)
                      ELSE FMul(FSub(xs[i], mean), FSub(xs[i], mean))]
         IN FSqrt(FDiv(Fin(SumRange(sq, lo, Len(xs))), Num(window - 1)))

\* Series.ewm(span).mean(): pandas' recursion with adjust=True and
\* ignore_na=False. `weighted` is the running mean, `old_wt` the weight of
\* the past, which decays by (span-1)/(span+1) per row; a value equal to
\* the running mean leaves it unchanged. EwmStep is one row of the loop and
\* `out` collects the output column.
EwmStep(st, cur, span) ==
    LET weighted == st.weighted
        obs == ~IsNaN(cur)
        live == ~IsNaN(weighted)
        decayed == IF live
                   THEN Fin((st.old_wt.v * (span - 1)) \div (span + 1))
                   ELSE st.old_wt
        w2 == IF live
              THEN (IF obs /\ weighted # cur
                    THEN FDiv(FAdd(FMul(decayed, weighted), cur),
                              FAdd(decayed, Num(1)))
                    ELSE weighted)
              ELSE cur
    IN [weighted |-> w2,
        old_wt |-> IF live /\ obs THEN FAdd(decayed, Num(1)) ELSE decayed,
        out |-> Append(st.out, w2)]

\* The loop over rows lo..hi, run by halving the range; the rows up to mid
\* are evaluated (their output has mid values) before the later ones start.
RECURSIVE EwmRows(_, _, _, _, _)
EwmRows(xs, span, lo, hi, st) ==
    IF lo > hi THEN st
    ELSE IF lo = hi THEN EwmStep(st, xs[lo], span)
    ELSE LET mid == (lo + hi) \div 2
             left == EwmRows(xs, span, lo, mid, st)
         IN IF Len(left.out) = mid THEN EwmRows(xs, span, mid + 1, hi, left) ELSE left

EwmMean(xs, span) ==
    IF Len(xs) = 0 THEN <<>>
    ELSE EwmRows(xs, span, 2, Len(xs),
                 [weighted |-> xs[1], old_wt |-> Num(1), out |-> <<xs[1]>>]).out

\* ------------------------------------------------------- calculate_rsi

\* delta.where(delta > 0, 0) and -delta.where(delta < 0, 0), per row.
Gain(d) == IF FGt(d, Num(0)) THEN d ELSE Num(0)
\* Mutant of Loss: the negation is forgotten.
LossNotNegated(d) == IF FLt(d, Num(0)) THEN d ELSE Num(0)
Loss(d) == FNeg(IF FLt(d, Num(0)) THEN d ELSE Num(0))

\* Mutant of ReplaceZeroLoss: the replacement is dropped.
ReplaceZeroLossDropped(x) == x

\* avg_loss.replace(0, 0.01)
ReplaceZeroLoss(x) == IF FEq(x, Num(0)) THEN Fin(10) ELSE x

calculate_rsi(data) ==
    LET delta == Diff(CloseCol(data))
        gain == [i \in 1..Len(data) |-> Gain(delta[i])]
        loss == [i \in 1..Len(data) |-> Loss(delta[i])]
        avg_gain == RollingMeanLast(gain, RsiPeriod)
        avg_loss == ReplaceZeroLoss(RollingMeanLast(loss, RsiPeriod))
        rs == FDiv(avg_gain, avg_loss)
        rsi == FSub(Num(100), FDiv(Num(100), FAdd(Num(1), rs)))
    IN safe_float(rsi, Num(50))

\* ------------------------------------------------------ calculate_macd

calculate_macd(data) ==
    LET n == Len(data)
        exp1 == EwmMean(CloseCol(data), MacdFast)
        exp2 == EwmMean(CloseCol(data), MacdSlow)
        macd_line == [i \in 1..n |-> FSub(exp1[i], exp2[i])]
        signal_line == EwmMean(macd_line, MacdSignal)
        histogram == FSub(macd_line[n], signal_line[n])
    IN [macd |-> safe_float(macd_line[n], Num(0)),
        signal |-> safe_float(signal_line[n], Num(0)),
        histogram |-> safe_float(histogram, Num(0))]

\* -------------------------------------------- calculate_bollinger_bands

calculate_bollinger_bands(data) ==
    LET sma == RollingMeanLast(CloseCol(data), BollingerPeriod)
        std == RollingStdLast(CloseCol(data), BollingerPeriod)
        upper_band == FAdd(sma, FMul(std, Num(BollingerStdDev)))
        lower_band == FSub(sma, FMul(std, Num(BollingerStdDev)))
        current_price == ILast(CloseCol(data))
    IN [upper |-> safe_float(upper_band, FMul(current_price, Fin(1100))),
        middle |-> safe_float(sma, current_price),
        lower |-> safe_float(lower_band, FMul(current_price, Fin(900))),
        current |-> safe_float(current_price, Num(0))]

\* ----------------------------------- calculate_moving_average_crossover

Min(a, b) == IF a < b THEN a ELSE b

\* The window sizes used: the defaults, or the shrunk ones for a series
\* shorter than the long window.
MaWindows(len) ==
    IF len < MaLong
    THEN [short |-> Min(ShrunkShort, len \div 2), long |-> Min(ShrunkLong, len - 1)]
    ELSE [short |-> MaShort, long |-> MaLong]

\* Mutant of Crossover: >= for >.
CrossoverOrEqual(short_val, long_val) == FGe(short_val, long_val)

\* 'crossover': short_val > long_val
Crossover(short_val, long_val) == FGt(short_val, long_val)

calculate_moving_average_crossover(data) ==
    LET w == MaWindows(Len(data))
        close == CloseCol(data)
    IN IF RollingValid(w.short) /\ RollingValid(w.long)
       THEN LET short_val == safe_float(RollingMeanLast(close, w.short), ILast(close))
                long_val == safe_float(RollingMeanLast(close, w.long), ILast(close))
            IN [short_ma |-> short_val, long_ma |-> long_val,
                crossover |-> Crossover(short_val, long_val)]
       ELSE LET current_price == safe_float(ILast(close), Num(100))
            IN [short_ma |-> current_price, long_ma |-> current_price,
                crossover |-> FALSE]

\* ------------------------------------------------ calculate_volatility

TrueRange(data) ==
    LET prev == Shift(CloseCol(data))
    IN [i \in 1..Len(data) |->
          FMaxSkipNa(FMaxSkipNa(FSub(data[i].High, data[i].Low),
                                FAbs(FSub(data[i].High, prev[i]))),
                     FAbs(FSub(data[i].Low, prev[i])))]

\* Mutant of VolatilityPath: the check of the price is dropped.
VolatilityPathNoPriceCheck(data) ==
    IF Len(data) < VolatilityPeriod THEN "short" ELSE "computed"

\* Which return statement of calculate_volatility is taken.
VolatilityPath(data) ==
    IF Len(data) < VolatilityPeriod THEN "short"
    ELSE IF FLe(safe_float(ILast(CloseCol(data)), Num(100)), Num(0)) THEN "nonpositive"
    ELSE "computed"

calculate_volatility(data) ==
    IF VolatilityPath(data) # "computed" THEN Num(2)
    ELSE LET atr == RollingMeanLast(TrueRange(data), VolatilityPeriod)
             current_price == safe_float(ILast(CloseCol(data)), Num(100))
             atr_val == safe_float(atr, FMul(current_price, Fin(20)))
             volatility_pct == FMul(FDiv(atr_val, current_price), Num(100))
         IN safe_float(volatility_pct, Num(2))

\* ----------------------------------------------- get_indicator_signals

\* Mutant of RsiSignal: the thresholds are inclusive.
RsiSignalInclusive(rsi) ==
    IF FLe(rsi, Num(30)) THEN "Buy" ELSE IF FGe(rsi, Num(70)) THEN "Sell" ELSE "Hold"

RsiSignal(rsi) ==
    IF FLt(rsi, Num(30)) THEN "Buy" ELSE IF FGt(rsi, Num(70)) THEN "Sell" ELSE "Hold"

MacdSignalOf(m) ==
    IF FGt(m.macd, m.signal) /\ FGt(m.histogram, Num(0)) THEN "Buy"
    ELSE IF FLt(m.macd, m.signal) /\ FLt(m.histogram, Num(0)) THEN "Sell"
    ELSE "Hold"

MovingAverageSignal(ma) == IF ma.crossover THEN "Buy" ELSE "Sell"

BollingerSignal(bb) ==
    IF FLt(bb.current, bb.lower) THEN "Buy"
    ELSE IF FGt(bb.current, bb.upper) THEN "Sell"
    ELSE "Hold"

VolatilitySignal(volatility) ==
    IF FGt(volatility, Num(5)) THEN "Sell"
    ELSE IF FLt(volatility, Num(2)) THEN "Buy"
    ELSE "Hold"

get_indicator_signals(ind) ==
    [rsi |-> RsiSignal(ind.rsi),
     macd |-> MacdSignalOf(ind.macd),
     moving_average |-> MovingAverageSignal(ind.moving_average),
     bollinger_bands |-> BollingerSignal(ind.bollinger_bands),
     volatility |-> VolatilitySignal(ind.volatility)]

\* ------------------------------------------- calculate_final_suggestion

Count(sigs, s) == Cardinality({key \in DOMAIN sigs : sigs[key] = s})

\* Mutant of calculate_final_suggestion: the majority is tested before the
\* strong thresholds.
calculate_final_suggestion_majority_first(sigs) ==
    LET buy_count == Count(sigs, "Buy")
        sell_count == Count(sigs, "Sell")
    IN IF buy_count > sell_count THEN "Buy"
       ELSE IF sell_count > buy_count THEN "Sell"
       ELSE IF buy_count >= StrongVotes THEN "Strong Buy"
       ELSE IF sell_count >= StrongVotes THEN "Strong Sell"
       ELSE "Hold"

calculate_final_suggestion(sigs) ==
    LET buy_count == Count(sigs, "Buy")
        sell_count == Count(sigs, "Sell")
    IN IF buy_count >= StrongVotes THEN "Strong Buy"
       ELSE IF sell_count >= StrongVotes THEN "Strong Sell"
       ELSE IF buy_count > sell_count THEN "Buy"
       ELSE IF sell_count > buy_count THEN "Sell"
       ELSE "Hold"

\* ------------------------------------------------------ the state machine

VARIABLES
    pc,                 \* the position in analyze() / in the pipeline
    request,            \* the JSON body of the POST /analyze request
    hist,               \* the price series: stock.history(period='1y')
    indicators,         \* the dict of the five calculators' results
    signals,            \* get_indicator_signals' result
    final_suggestion,   \* calculate_final_suggestion's result
    response            \* the HTTP status and error of the response

vars == <<pc, request, hist, indicators, signals, final_suggestion, response>>

Bar(h, l, c) == [High |-> h, Low |-> l, Close |-> c]
FlatBar(c) == Bar(Num(c), Num(c), Num(c))

\* Length of the long series used for the default 50/200 windows.
FlatLen == 250
BaseBar == FlatBar(100)

\* The bars a series may end with: flat, up, down with a wide range, a
\* missing bar, a negative and a zero price, and a non-finite close.
TailBars ==
    {BaseBar,
     Bar(Num(110), Num(100), Num(110)),
     Bar(Num(120), Num(80), Num(90)),
     Bar(NaN, NaN, NaN),
     FlatBar(-10),
     FlatBar(0),
     Bar(Num(100), Num(100), NInf)}

Lens == (1..MaxShortLen) \cup {MaLong - 1, MaLong, FlatLen}

\* A series of n bars: BaseBar repeated, then the bars of `tail`.
SeriesOf(n, tail) ==
    [i \in 1..n |-> IF i > n - Len(tail) THEN tail[i - (n - Len(tail))] ELSE BaseBar]

SeriesFamily ==
    UNION {{SeriesOf(n, tail) : tail \in [1..Min(n, TailLen) -> TailBars]} : n \in Lens}

NoIndicators ==
    [rsi |-> None,
     macd |-> [macd |-> None, signal |-> None, histogram |-> None],
     moving_average |-> [short_ma |-> None, long_ma |-> None, crossover |-> FALSE],
     bollinger_bands |-> [upper |-> None, middle |-> None, lower |-> None, current |-> None],
     volatility |-> None]
NoSignals ==
    [rsi |-> "none", macd |-> "none", moving_average |-> "none",
     bollinger_bands |-> "none", volatility |-> "none"]
NoRequest == [json |-> "none", symbol |-> "none"]
NoResponse == [status |-> 0, error |-> "none"]

\* analyze(), lines 374-380: the five calculators, in the order of the dict.
CalculateRsi ==
    /\ pc = "rsi"
    /\ indicators' = [indicators EXCEPT !.rsi = calculate_rsi(hist)]
    /\ pc' = "macd"
    /\ UNCHANGED <<request, hist, signals, final_suggestion, response>>

CalculateMacd ==
    /\ pc = "macd"
    /\ indicators' = [indicators EXCEPT !.macd = calculate_macd(hist)]
    /\ pc' = "moving_average"
    /\ UNCHANGED <<request, hist, signals, final_suggestion, response>>

CalculateMovingAverageCrossover ==
    /\ pc = "moving_average"
    /\ indicators' = [indicators EXCEPT
                        !.moving_average = calculate_moving_average_crossover(hist)]
    /\ pc' = "bollinger_bands"
    /\ UNCHANGED <<request, hist, signals, final_suggestion, response>>

CalculateBollingerBands ==
    /\ pc = "bollinger_bands"
    /\ indicators' = [indicators EXCEPT
                        !.bollinger_bands = calculate_bollinger_bands(hist)]
    /\ pc' = "volatility"
    /\ UNCHANGED <<request, hist, signals, final_suggestion, response>>

CalculateVolatility ==
    /\ pc = "volatility"
    /\ indicators' = [indicators EXCEPT !.volatility = calculate_volatility(hist)]
    /\ pc' = "signals"
    /\ UNCHANGED <<request, hist, signals, final_suggestion, response>>

GetIndicatorSignals ==
    /\ pc = "signals"
    /\ signals' = get_indicator_signals(indicators)
    /\ pc' = "suggest"
    /\ UNCHANGED <<request, hist, indicators, final_suggestion, response>>

CalculateFinalSuggestion ==
    /\ pc = "suggest"
    /\ final_suggestion' = calculate_final_suggestion(signals)
    /\ pc' = "respond"
    /\ UNCHANGED <<request, hist, indicators, signals, response>>

\* The core pipeline applied to any series of at least one bar.
Init ==
    /\ pc = "rsi"
    /\ request = NoRequest
    /\ hist \in SeriesFamily
    /\ indicators = NoIndicators
    /\ signals = NoSignals
    /\ final_suggestion = "none"
    /\ response = NoResponse

Next ==
    \/ CalculateRsi
    \/ CalculateMacd
    \/ CalculateMovingAverageCrossover
    \/ CalculateBollingerBands
    \/ CalculateVolatility
    \/ GetIndicatorSignals
    \/ CalculateFinalSuggestion

Spec == Init /\ [][Next]_vars

\* ---------------------------------------------------- POST /analyze

\* The bodies a request may carry: no JSON at all (request.get_json()
\* returns None), an empty object, an object without a symbol, with an
\* empty symbol, and with a symbol.
Requests ==
    {[json |-> "none", symbol |-> "none"],
     [json |-> "empty", symbol |-> "none"],
     [json |-> "object", symbol |-> "none"],
     [json |-> "object", symbol |-> ""],
     [json |-> "object", symbol |-> "RELIANCE.NS"]}

\* `not data` and `not symbol`
NoData(req) == req.json \in {"none", "empty"}
NoSymbol(req) == req.symbol \in {"none", ""}

\* What the market-data provider may return: any series, or no bars at all.
ProviderSeries == SeriesFamily \cup {<<>>}

\* Mutant of InsufficientData: only an empty history is rejected.
InsufficientDataOnlyEmpty(h) == Len(h) = 0

\* len(hist) < 20
InsufficientData(h) == Len(h) < MinHistory

\* current_price = safe_float(hist['Close'].iloc[-1], 0); current_price <= 0
InvalidPrice(h) == FLe(safe_float(ILast(CloseCol(h)), Num(0)), Num(0))

BadRequest(msg) == [status |-> 400, error |-> msg]

GetJson ==
    /\ pc = "get_json"
    /\ IF NoData(request)
       THEN /\ response' = BadRequest("No JSON data provided")
            /\ pc' = "done"
       ELSE /\ pc' = "symbol"
            /\ UNCHANGED response
    /\ UNCHANGED <<request, hist, indicators, signals, final_suggestion>>

GetSymbol ==
    /\ pc = "symbol"
    /\ IF NoSymbol(request)
       THEN /\ response' = BadRequest("No stock symbol provided")
            /\ pc' = "done"
       ELSE /\ pc' = "fetch"
            /\ UNCHANGED response
    /\ UNCHANGED <<request, hist, indicators, signals, final_suggestion>>

\* stock.history(period='1y'): the provider answers with a series, or the
\* call raises and the handler's except clause answers 500.
FetchHistory ==
    /\ pc = "fetch"
    /\ \/ /\ \E series \in ProviderSeries : hist' = series
          /\ pc' = "check_len"
          /\ UNCHANGED response
       \/ /\ response' = [status |-> 500, error |-> "Analysis failed"]
          /\ pc' = "done"
          /\ UNCHANGED hist
    /\ UNCHANGED <<request, indicators, signals, final_suggestion>>

CheckLength ==
    /\ pc = "check_len"
    /\ IF InsufficientData(hist)
       THEN /\ response' = BadRequest("Insufficient data")
            /\ pc' = "done"
       ELSE /\ pc' = "check_price"
            /\ UNCHANGED response
    /\ UNCHANGED <<request, hist, indicators, signals, final_suggestion>>

\* The look-up of the company name that follows (lines 367-371) catches its
\* own exceptions and changes nothing the indicators read.
CheckPrice ==
    /\ pc = "check_price"
    /\ IF InvalidPrice(hist)
       THEN /\ response' = BadRequest("Invalid price data")
            /\ pc' = "done"
       ELSE /\ pc' = "rsi"
            /\ UNCHANGED response
    /\ UNCHANGED <<request, hist, indicators, signals, final_suggestion>>

\* return jsonify(response_data)
Respond ==
    /\ pc = "respond"
    /\ response' = [status |-> 200, error |-> "none"]
    /\ pc' = "done"
    /\ UNCHANGED <<request, hist, indicators, signals, final_suggestion>>

InitAnalyze ==
    /\ pc = "get_json"
    /\ request \in Requests
    /\ hist = <<>>
    /\ indicators = NoIndicators
    /\ signals = NoSignals
    /\ final_suggestion = "none"
    /\ response = NoResponse

NextAnalyze ==
    \/ GetJson
    \/ GetSymbol
    \/ FetchHistory
    \/ CheckLength
    \/ CheckPrice
    \/ CalculateRsi
    \/ CalculateMacd
    \/ CalculateMovingAverageCrossover
    \/ CalculateBollingerBands
    \/ CalculateVolatility
    \/ GetIndicatorSignals
    \/ CalculateFinalSuggestion
    \/ Respond

SpecAnalyze == InitAnalyze /\ [][NextAnalyze]_vars

\* ------------------------------- the classifier on any indicator report

SignalNames == {"rsi", "macd", "moving_average", "bollinger_bands", "volatility"}
SignalValues == {"Buy", "Hold", "Sell"}

\* Values on, just below and just above the classifier's thresholds.
RsiValues == {Fin(29999), Num(30), Num(50), Num(70), Fin(70001)}
VolatilityValues == {Fin(1999), Num(2), Num(3), Num(5), Fin(5001)}
MacdValues == {Num(-1), Num(0), Num(1)}
PriceValues == {Num(99), Num(100), Num(101)}

Reports ==
    [rsi : RsiValues,
     macd : [macd : MacdValues, signal : MacdValues, histogram : MacdValues],
     moving_average : [short_ma : {Num(100)}, long_ma : {Num(100)}, crossover : BOOLEAN],
     bollinger_bands : [upper : {Num(100), Num(101)}, middle : {Num(100)},
                        lower : {Num(99), Num(100)}, current : PriceValues],
     volatility : VolatilityValues]

InitSignals ==
    /\ pc = "signals"
    /\ request = NoRequest
    /\ hist = <<>>
    /\ indicators \in Reports
    /\ signals = NoSignals
    /\ final_suggestion = "none"
    /\ response = NoResponse

NextSignals == GetIndicatorSignals \/ CalculateFinalSuggestion

SpecSignals == InitSignals /\ [][NextSignals]_vars

\* --------------------------- the aggregator on any five signals

InitVote ==
    /\ pc = "suggest"
    /\ request = NoRequest
    /\ hist = <<>>
    /\ indicators = NoIndicators
    /\ signals \in [SignalNames -> SignalValues]
    /\ final_suggestion = "none"
    /\ response = NoResponse

NextVote == CalculateFinalSuggestion

SpecVote == InitVote /\ [][NextVote]_vars

\* ------------------------------------------------------------ the claims

BuyCount == Cardinality({n \in SignalNames : signals[n] = "Buy"})
SellCount == Cardinality({n \in SignalNames : signals[n] = "Sell"})
LatestClose == ILast(CloseCol(hist))

\* C1: for every assignment of the five signals, the final suggestion is
\* the first match of the ladder: buyCount >= 3 Strong Buy, else
\* sellCount >= 3 Strong Sell, else buyCount > sellCount Buy, else
\* sellCount > buyCount Sell, else Hold; 3 Buy + 2 Sell is Strong Buy and
\* 2 Buy + 2 Sell is Hold.
C1_PriorityLadder ==
    pc = "respond" =>
        /\ BuyCount >= 3 => final_suggestion = "Strong Buy"
        /\ BuyCount < 3 /\ SellCount >= 3 => final_suggestion = "Strong Sell"
        /\ BuyCount < 3 /\ SellCount < 3 /\ BuyCount > SellCount
             => final_suggestion = "Buy"
        /\ BuyCount < 3 /\ SellCount < 3 /\ SellCount > BuyCount
             => final_suggestion = "Sell"
        /\ BuyCount < 3 /\ SellCount < 3 /\ BuyCount = SellCount
             => final_suggestion = "Hold"
        /\ BuyCount = 3 /\ SellCount = 2 => final_suggestion = "Strong Buy"
        /\ BuyCount = 2 /\ SellCount = 2 => final_suggestion = "Hold"

C1_StrongBeatsMajority ==
    pc = "respond" /\ BuyCount = 3 /\ SellCount = 2 /\ final_suggestion = "Strong Buy"

\* The flat series of the end-to-end scenario: every bar at 100.
FlatSeries == Len(hist) = FlatLen /\ \A i \in 1..Len(hist) : hist[i] = FlatBar(100)

FlatIndicatorsButRsi ==
    /\ indicators.macd.histogram = Num(0)
    /\ indicators.bollinger_bands.upper = Num(100)
    /\ indicators.bollinger_bands.lower = Num(100)
    /\ indicators.bollinger_bands.middle = Num(100)
    /\ indicators.bollinger_bands.current = Num(100)
    /\ indicators.moving_average.crossover = FALSE
    /\ indicators.volatility = Num(0)
    /\ signals.macd = "Hold"
    /\ signals.moving_average = "Sell"
    /\ signals.bollinger_bands = "Hold"
    /\ signals.volatility = "Buy"
    /\ SellCount = 1

\* C2 as stated: on the flat series of 250 bars at 100 the RSI is 50 and
\* its signal Hold, MACD histogram 0, the Bollinger fields all 100, no
\* crossover, volatility 0; signals Hold, Hold, Sell, Hold, Buy; one Buy,
\* one Sell, verdict Hold.
C2_FlatSeriesAsStated ==
    FlatSeries /\ pc = "respond" =>
        /\ FlatIndicatorsButRsi
        /\ indicators.rsi = Num(50)
        /\ signals.rsi = "Hold"
        /\ BuyCount = 1
        /\ final_suggestion = "Hold"

\* C2 amended: on the flat series the RSI is 0 (no gain, and the zero
\* average loss replaced by 0.01), its signal is Buy, so there are two Buy
\* and one Sell and the verdict is Buy; the other indicators are as stated.
C2_FlatSeries ==
    FlatSeries /\ pc = "respond" =>
        /\ FlatIndicatorsButRsi
        /\ indicators.rsi = Num(0)
        /\ signals.rsi = "Buy"
        /\ BuyCount = 2
        /\ final_suggestion = "Buy"

C2_FlatSeriesAnalysed == FlatSeries /\ pc = "respond"

NumericFields ==
    {indicators.rsi, indicators.volatility,
     indicators.macd.macd, indicators.macd.signal, indicators.macd.histogram,
     indicators.bollinger_bands.upper, indicators.bollinger_bands.middle,
     indicators.bollinger_bands.lower, indicators.bollinger_bands.current,
     indicators.moving_average.short_ma, indicators.moving_average.long_ma}

\* C3: for every series of at least one bar, also with missing or
\* non-finite bars, every numeric field a calculator returned is finite.
C3_AllFieldsFinite == \A x \in NumericFields : x = None \/ IsFin(x)

\* C4: for every series (here: every series whose latest close is a
\* number of any sign) the Bollinger result has lower <= middle <= upper,
\* on the rolling path and on the fallback path.
C4_BandOrdered ==
    indicators.bollinger_bands.current # None /\ IsFin(LatestClose) =>
        /\ FLe(indicators.bollinger_bands.lower, indicators.bollinger_bands.middle)
        /\ FLe(indicators.bollinger_bands.middle, indicators.bollinger_bands.upper)

C6_CrossoverSignal ==
    pc \in {"suggest", "respond"} =>
        /\ signals.moving_average \in {"Buy", "Sell"}
        /\ signals.moving_average = "Buy"
             <=> FGt(indicators.moving_average.short_ma,
                     indicators.moving_average.long_ma)

C6_EqualAveragesSell ==
    /\ pc = "suggest"
    /\ signals.moving_average = "Sell"
    /\ IsFin(indicators.moving_average.short_ma)
    /\ indicators.moving_average.short_ma = indicators.moving_average.long_ma
    /\ indicators.moving_average.long_ma = LatestClose

\* C7: the RSI returned is between 0 and 100, also when the average loss
\* is zero and when the default 50 is returned.
C7_RsiBounded ==
    indicators.rsi # None =>
        FGe(indicators.rsi, Num(0)) /\ FLe(indicators.rsi, Num(100))

C7_RsiZeroLoss ==
    /\ pc = "macd"
    /\ Len(hist) >= RsiPeriod
    /\ FGt(indicators.rsi, Num(70))
    /\ FLt(indicators.rsi, Num(100))

VolatilityIsFallback ==
    /\ indicators.volatility = Num(2)
    /\ signals.volatility \in {"none", "Hold"}

\* C8 as stated: the volatility is exactly 2.0, and its signal Hold,
\* whenever the series has fewer than 14 bars or the latest close is <= 0.
C8_FallbackAsStated ==
    (/\ indicators.volatility # None
     /\ (Len(hist) < 14 \/ FLe(LatestClose, Num(0))))
    => VolatilityIsFallback

\* C8 amended: the volatility is exactly 2.0, and its signal Hold,
\* whenever the series has fewer than 14 bars or the latest close is a
\* finite number <= 0 (a close of -Infinity is replaced by the price 100).
C8_Fallback ==
    (/\ indicators.volatility # None
     /\ (Len(hist) < 14 \/ (IsFin(LatestClose) /\ FLe(LatestClose, Num(0)))))
    => VolatilityIsFallback

C8_NonPositiveClose ==
    /\ pc = "suggest"
    /\ Len(hist) >= 14
    /\ IsFin(LatestClose)
    /\ FLe(LatestClose, Num(0))
    /\ signals.volatility = "Hold"

\* C9: for every series length below 200 the shrunk windows satisfy
\* 1 <= short' < long'.
C9_WindowsOrdered ==
    indicators.moving_average.short_ma # None /\ Len(hist) < 200 =>
        /\ 1 <= MaWindows(Len(hist)).short
        /\ MaWindows(Len(hist)).short < MaWindows(Len(hist)).long

CorePositions ==
    {"rsi", "macd", "moving_average", "bollinger_bands", "volatility",
     "signals", "suggest", "respond"}

CoreInvoked ==
    \/ pc \in CorePositions
    \/ indicators # NoIndicators
    \/ signals # NoSignals
    \/ final_suggestion # "none"

\* The error of the first check of analyze that fails.
FirstFailure ==
    IF request.json \in {"none", "empty"} THEN "No JSON data provided"
    ELSE IF request.symbol \in {"none", ""} THEN "No stock symbol provided"
    ELSE IF Len(hist) < 20 THEN "Insufficient data"
    ELSE "Invalid price data"

\* C10: analyze checks, in this order, the JSON body, the symbol, the
\* length of the history (at least 20 bars) and the latest close (finite
\* and > 0); the first check that fails answers 400 with nothing
\* computed; the calculators, the classifier and the aggregator run only
\* after all four passed, so the volatility never takes its short-series
\* or non-positive-close fallback and a series shorter than 200 bars
\* uses the windows 5 and 10.
C10_ChecksBeforeCore ==
    /\ response.status = 400 => ~CoreInvoked /\ response.error = FirstFailure
    /\ CoreInvoked =>
        /\ request.json = "object"
        /\ request.symbol \notin {"none", ""}
        /\ Len(hist) >= 20
        /\ IsFin(LatestClose)
        /\ LatestClose.v > 0
        /\ VolatilityPath(hist) = "computed"
        /\ Len(hist) < 200 => MaWindows(Len(hist)) = [short |-> 5, long |-> 10]
    /\ response.status = 200 => final_suggestion # "none"

C10_AnalysedShortSeries ==
    /\ pc = "done"
    /\ response.status = 200
    /\ Len(hist) < 200

====
